---- MODULE Spec2Model ----
(***************************************************************************)
(* Battery monitor (main.go): the Monitor state machine that, on every     *)
(* poll tick, reads the battery, classifies the capacity against the two   *)
(* configured thresholds and sends, replaces or clears one desktop         *)
(* notification through the Notifier.                                      *)
(***************************************************************************)
EXTENDS Integers, Sequences, FiniteSets, TLC

\* Number of checks a behaviour runs (the poll loop itself never stops).
MaxTicks == 4
\* Capacities the battery reports are 0..MaxCapacity.
MaxCapacity == 30
\* Thresholds of the classifier specification are 0..MaxThreshold.
MaxThreshold == 12

\* Notifications the server accepts in the startup-and-loop specification.
MaxSends == 3

\* Number of checks a behaviour of the playback specification runs.
MaxSoundTicks == 2

\* Thresholds the configurations of the monitor specification draw from.
Thresholds == {10, 20}

\* Capacities read on the ticks of the documented scenario.
ScenarioCapacity == <<25, 18, 9, 30>>

Levels == {"normal", "low", "critical"}

VARIABLES
    config,           \* Monitor.config: the two thresholds
    currentLevel,     \* Monitor.currentLevel
    notificationID,   \* Monitor.notificationID
    serverID,         \* last identifier the notification server handed out
    history,          \* one record per executed check
    followsScenario,  \* every check so far read ScenarioCapacity, discharging
    input,            \* the reading fixed for the run (classifier specification)
    pc,               \* where main() and Monitor.run() stand
    startup,          \* the startup steps main() attempted, with their results
    round,            \* flips with every executed check
    players,          \* the playback tasks playSound started
    quiet             \* the same run of the monitor with playSound left out

vars == <<config, currentLevel, notificationID, serverID, history,
          followsScenario, input, pc, startup, round, players, quiet>>

----------------------------------------------------------------------------
\* Config: only the thresholds decide the control flow of check().
MakeConfig(low, critical) ==
    [LowBattery |-> [Threshold |-> low],
     CriticalBattery |-> [Threshold |-> critical]]

\* Variant of Classify: the thresholds themselves no longer alert.
ClassifyStrict(capacity) ==
    IF capacity < config.CriticalBattery.Threshold THEN "critical"
    ELSE IF capacity < config.LowBattery.Threshold THEN "low"
    ELSE "normal"

\* Variant of Classify: the low threshold is tested before the critical one.
ClassifyLowFirst(capacity) ==
    IF capacity <= config.LowBattery.Threshold THEN "low"
    ELSE IF capacity <= config.CriticalBattery.Threshold THEN "critical"
    ELSE "normal"

\* check(), lines 244-255: the level of a capacity read while discharging.
Classify(capacity) ==
    IF capacity <= config.CriticalBattery.Threshold THEN "critical"
    ELSE IF capacity <= config.LowBattery.Threshold THEN "low"
    ELSE "normal"

\* Variant of ShouldNotify: level-triggered, not edge-triggered.
ShouldNotifyEveryTick(newLevel) ==
    newLevel # "normal"

\* check(), line 258: a change into or between the alert levels.
ShouldNotify(newLevel) ==
    newLevel # currentLevel /\ newLevel # "normal"

\* Variant of ShouldRecover: the recovery branch is never taken.
ShouldRecoverNever(newLevel) ==
    FALSE

\* check(), line 278: back above both thresholds while an alert is active.
ShouldRecover(newLevel) ==
    newLevel = "normal" /\ currentLevel # "normal"

\* Variant of ShouldCloseOld: the previous notification is left open.
ShouldCloseOldNever(id) ==
    FALSE

\* Variant of ShouldCloseOld: Close follows every successful Send.
ShouldCloseOldAlways(id) ==
    TRUE

\* check(), line 270: the previous notification is closed after a new one.
ShouldCloseOld(id) ==
    notificationID # 0 /\ notificationID # id

\* Variant of ShouldClear: every charging tick closes.
ShouldClearAlways ==
    TRUE

\* check(), line 225: charging clears an active alert.
ShouldClear ==
    currentLevel # "normal"

----------------------------------------------------------------------------
\* DBusNotifier.Send: one Notify call; the server answers with a fresh
\* nonzero identifier, a failed call yields identifier 0 and an error.
DBusSend(level, transportOK) ==
    IF transportOK
    THEN [op |-> "Send", level |-> level, id |-> serverID + 1, ok |-> TRUE,
          dbus |-> 1]
    ELSE [op |-> "Send", level |-> level, id |-> 0, ok |-> FALSE, dbus |-> 1]

\* Variant of DBusClose: identifier 0 goes to the transport like any other.
DBusCloseAlwaysCalls(id, transportOK) ==
    [op |-> "Close", level |-> "", id |-> id, ok |-> transportOK, dbus |-> 1]

\* DBusNotifier.Close: identifier 0 returns nil without a transport call.
DBusClose(id, transportOK) ==
    IF id = 0
    THEN [op |-> "Close", level |-> "", id |-> id, ok |-> TRUE, dbus |-> 0]
    ELSE [op |-> "Close", level |-> "", id |-> id, ok |-> transportOK,
          dbus |-> 1]

\* What one check did: its readings, its calls and the state it left.
TickRecord(charging, capacity, newLevel, calls, sound, err, level, id) ==
    [charging |-> charging, capacity |-> capacity, newLevel |-> newLevel,
     calls |-> calls, sound |-> sound, err |-> err,
     level0 |-> currentLevel, id0 |-> notificationID,
     level |-> level, id |-> id]

\* Variant of AbortTick: a failed read also drops the alert state.
AbortTickReset(charging, capacity) ==
    [level |-> "normal", id |-> 0, server |-> serverID,
     rec |-> TickRecord(charging, capacity, "", <<>>, "", TRUE, "normal", 0)]

\* check(), lines 218-221 and 236-239: a failed read returns the error.
AbortTick(charging, capacity) ==
    [level |-> currentLevel, id |-> notificationID, server |-> serverID,
     rec |-> TickRecord(charging, capacity, "", <<>>, "", TRUE,
                        currentLevel, notificationID)]

\* check(), lines 223-234: the charging override, capacity is not read.
ChargingBranch(closeOK) ==
    IF ShouldClear
    THEN [level |-> "normal", id |-> 0, server |-> serverID,
          rec |-> TickRecord("true", "unread", "",
                             <<DBusClose(notificationID, closeOK)>>, "",
                             FALSE, "normal", 0)]
    ELSE [level |-> currentLevel, id |-> notificationID, server |-> serverID,
          rec |-> TickRecord("true", "unread", "", <<>>, "", FALSE,
                             currentLevel, notificationID)]

\* Variant of AlertBranch: a failed Send skips the sound and keeps the level.
AlertBranchKeepOnFail(newLevel, sendOK, closeOK) ==
    LET sent == DBusSend(newLevel, sendOK)
        calls == IF sent.ok /\ ShouldCloseOld(sent.id)
                 THEN <<sent, DBusClose(notificationID, closeOK)>>
                 ELSE <<sent>>
    IN  IF sent.ok
        THEN [level |-> newLevel, id |-> sent.id, server |-> sent.id,
              rec |-> TickRecord("false", "read", newLevel, calls, newLevel,
                                 FALSE, newLevel, sent.id)]
        ELSE [level |-> currentLevel, id |-> notificationID,
              server |-> serverID,
              rec |-> TickRecord("false", "read", newLevel, calls, "", FALSE,
                                 currentLevel, notificationID)]

\* check(), lines 258-277: send the alert of newLevel, close the previous
\* notification after a successful send, play the sound, take the level.
AlertBranch(newLevel, sendOK, closeOK) ==
    LET sent == DBusSend(newLevel, sendOK)
        calls == IF sent.ok /\ ShouldCloseOld(sent.id)
                 THEN <<sent, DBusClose(notificationID, closeOK)>>
                 ELSE <<sent>>
        id == IF sent.ok THEN sent.id ELSE notificationID
    IN  [level |-> newLevel, id |-> id,
         server |-> IF sent.ok THEN sent.id ELSE serverID,
         rec |-> TickRecord("false", "read", newLevel, calls, newLevel,
                            FALSE, newLevel, id)]

\* Variant of RecoveryBranch: a failed Close keeps the state for a retry.
RecoveryBranchRetry(newLevel, closeOK) ==
    LET closed == DBusClose(notificationID, closeOK)
    IN  IF closed.ok
        THEN [level |-> "normal", id |-> 0, server |-> serverID,
              rec |-> TickRecord("false", "read", newLevel, <<closed>>, "",
                                 FALSE, "normal", 0)]
        ELSE [level |-> currentLevel, id |-> notificationID,
              server |-> serverID,
              rec |-> TickRecord("false", "read", newLevel, <<closed>>, "",
                                 FALSE, currentLevel, notificationID)]

\* check(), lines 278-285: recovery while discharging.
RecoveryBranch(newLevel, closeOK) ==
    [level |-> "normal", id |-> 0, server |-> serverID,
     rec |-> TickRecord("false", "read", newLevel,
                        <<DBusClose(notificationID, closeOK)>>, "", FALSE,
                        "normal", 0)]

\* check(), lines 258-287 when neither branch is taken.
NoChange(newLevel) ==
    [level |-> currentLevel, id |-> notificationID, server |-> serverID,
     rec |-> TickRecord("false", "read", newLevel, <<>>, "", FALSE,
                        currentLevel, notificationID)]

\* Monitor.check as a function of what the battery and the transport answer.
CheckOutcome(chargingOK, charging, capacityOK, capacity, sendOK, closeOK) ==
    IF ~chargingOK THEN AbortTick("error", "unread")
    ELSE IF charging THEN ChargingBranch(closeOK)
    ELSE IF ~capacityOK THEN AbortTick("false", "error")
    ELSE LET newLevel == Classify(capacity)
         IN  IF ShouldNotify(newLevel)
             THEN AlertBranch(newLevel, sendOK, closeOK)
             ELSE IF ShouldRecover(newLevel)
             THEN RecoveryBranch(newLevel, closeOK)
             ELSE NoChange(newLevel)

ApplyCheck(chargingOK, charging, capacityOK, capacity, sendOK, closeOK) ==
    LET out == CheckOutcome(chargingOK, charging, capacityOK, capacity,
                            sendOK, closeOK)
    IN  /\ currentLevel' = out.level
        /\ notificationID' = out.id
        /\ serverID' = out.server
        /\ history' = Append(history, out.rec)

\* Variant of AfterCheck: run() returns the error of a failed check.
AfterCheckStopOnError(err) ==
    IF err THEN "returned" ELSE "ticker"

\* run(), lines 297-299 and 305-307: the error of check() is only logged and
\* run() goes on to wait for the ticker.
AfterCheck(err) ==
    "ticker"

\* One check() called by run().
RunCheck(chargingOK, charging, capacityOK, capacity, sendOK, closeOK) ==
    LET out == CheckOutcome(chargingOK, charging, capacityOK, capacity,
                            sendOK, closeOK)
    IN  /\ ApplyCheck(chargingOK, charging, capacityOK, capacity,
                      sendOK, closeOK)
        /\ pc' = AfterCheck(out.rec.err)
        /\ round' = ~round

\* main(), lines 327-340: the startup steps in the order main() takes them.
StartupOrder == <<"loadConfig", "NewSysfsBattery", "NewDBusNotifier">>

Started == [i \in 1..3 |-> [step |-> StartupOrder[i], ok |-> TRUE]]

\* The monitor with playSound left out, before its first check.
QuietInit ==
    [level |-> "normal", id |-> 0, server |-> 0, calls |-> <<>>,
     states |-> <<>>]

----------------------------------------------------------------------------
\* main(), lines 342-347: the Monitor starts at normal with no notification.
Init ==
    /\ config \in {MakeConfig(l, c) : l \in Thresholds, c \in Thresholds}
    /\ currentLevel = "normal"
    /\ notificationID = 0
    /\ serverID = 0
    /\ history = <<>>
    /\ followsScenario = TRUE
    /\ input = [charging |-> FALSE, capacity |-> 0]
    /\ pc = "run"
    /\ startup = Started
    /\ round = FALSE
    /\ players = <<>>
    /\ quiet = QuietInit

\* One tick of Monitor.run: check() against whatever the battery reports.
Check ==
    /\ pc \in {"run", "ticker"}
    /\ Len(history) < MaxTicks
    /\ \E chargingOK \in BOOLEAN, charging \in BOOLEAN,
          capacityOK \in BOOLEAN, capacity \in 0..MaxCapacity,
          sendOK \in BOOLEAN, closeOK \in BOOLEAN :
          /\ RunCheck(chargingOK, charging, capacityOK, capacity,
                      sendOK, closeOK)
          /\ followsScenario' =
                (/\ followsScenario
                 /\ Len(history) < Len(ScenarioCapacity)
                 /\ chargingOK /\ ~charging /\ capacityOK
                 /\ capacity = ScenarioCapacity[Len(history) + 1])
    /\ UNCHANGED <<config, input, startup, players, quiet>>

Next == Check

Spec == Init /\ [][Next]_vars

----------------------------------------------------------------------------
\* The classifier specification: one check on a reading drawn at the start,
\* from any state the monitor can be in between ticks.
PriorStates ==
    {<<"normal", 0>>, <<"low", 0>>, <<"low", 1>>,
     <<"critical", 0>>, <<"critical", 1>>}

InitClassify ==
    /\ config \in {MakeConfig(l, c) : l \in 0..MaxThreshold,
                                      c \in 0..MaxThreshold}
    /\ \E p \in PriorStates :
          /\ currentLevel = p[1]
          /\ notificationID = p[2]
          /\ serverID = p[2]
    /\ history = <<>>
    /\ followsScenario = FALSE
    /\ input \in [charging : BOOLEAN, capacity : 0..MaxCapacity]
    /\ pc = "ticker"
    /\ startup = Started
    /\ round = FALSE
    /\ players = <<>>
    /\ quiet = QuietInit

CheckInput ==
    /\ Len(history) = 0
    /\ \E sendOK \in BOOLEAN, closeOK \in BOOLEAN :
          ApplyCheck(TRUE, input.charging, TRUE, input.capacity,
                     sendOK, closeOK)
    /\ UNCHANGED <<config, input, followsScenario, pc, startup, round,
                   players, quiet>>

NextClassify == CheckInput

SpecClassify == InitClassify /\ [][NextClassify]_vars

----------------------------------------------------------------------------
\* The startup-and-loop specification: main() from its first statement and
\* Monitor.run() without a bound on the number of checks.  The history keeps
\* the last check only, and the server accepts at most MaxSends
\* notifications.

\* Variant of AfterStartup: the error of a startup step is not looked at.
AfterStartupIgnoreError(step, ok) ==
    IF step = "loadConfig" THEN "NewSysfsBattery"
    ELSE IF step = "NewSysfsBattery" THEN "NewDBusNotifier"
    ELSE "run"

\* main(), lines 327-340: log.Fatalf on the error of a step, else go on.
AfterStartup(step, ok) ==
    IF ~ok THEN "fatal"
    ELSE IF step = "loadConfig" THEN "NewSysfsBattery"
    ELSE IF step = "NewSysfsBattery" THEN "NewDBusNotifier"
    ELSE "run"

InitMain ==
    /\ config \in {MakeConfig(l, c) : l \in Thresholds, c \in Thresholds}
    /\ currentLevel = ""
    /\ notificationID = 0
    /\ serverID = 0
    /\ history = <<>>
    /\ followsScenario = FALSE
    /\ input = [charging |-> FALSE, capacity |-> 0]
    /\ pc = "loadConfig"
    /\ startup = <<>>
    /\ round = FALSE
    /\ players = <<>>
    /\ quiet = QuietInit

\* main(), lines 327-330.
LoadConfig ==
    /\ pc = "loadConfig"
    /\ \E ok \in BOOLEAN :
          /\ startup' = Append(startup, [step |-> "loadConfig", ok |-> ok])
          /\ pc' = AfterStartup("loadConfig", ok)
    /\ UNCHANGED <<config, currentLevel, notificationID, serverID, history,
                   followsScenario, input, round, players, quiet>>

\* main(), lines 332-335.
FindBattery ==
    /\ pc = "NewSysfsBattery"
    /\ \E ok \in BOOLEAN :
          /\ startup' = Append(startup,
                               [step |-> "NewSysfsBattery", ok |-> ok])
          /\ pc' = AfterStartup("NewSysfsBattery", ok)
    /\ UNCHANGED <<config, currentLevel, notificationID, serverID, history,
                   followsScenario, input, round, players, quiet>>

\* main(), lines 337-347: with the notifier the Monitor is constructed.
CreateNotifier ==
    /\ pc = "NewDBusNotifier"
    /\ \E ok \in BOOLEAN :
          /\ startup' = Append(startup,
                               [step |-> "NewDBusNotifier", ok |-> ok])
          /\ pc' = AfterStartup("NewDBusNotifier", ok)
          /\ currentLevel' = IF pc' = "run" THEN "normal" ELSE currentLevel
    /\ UNCHANGED <<config, notificationID, serverID, history,
                   followsScenario, input, round, players, quiet>>

\* One capacity for every level a configuration over Thresholds classifies.
LoopCapacities == Thresholds \cup {MaxCapacity}

\* check() called by run(), keeping the record of this check only.
LoopCheck ==
    \E chargingOK \in BOOLEAN, charging \in BOOLEAN,
       capacityOK \in BOOLEAN, capacity \in LoopCapacities,
       sendOK \in (IF serverID < MaxSends THEN BOOLEAN ELSE {FALSE}),
       closeOK \in BOOLEAN :
       LET out == CheckOutcome(chargingOK, charging, capacityOK, capacity,
                               sendOK, closeOK)
       IN  /\ currentLevel' = out.level
           /\ notificationID' = out.id
           /\ serverID' = out.server
           /\ history' = <<out.rec>>
           /\ pc' = AfterCheck(out.rec.err)
           /\ round' = ~round

\* run(), lines 296-299: the check before the ticker is created.
InitialCheck ==
    /\ pc = "run"
    /\ LoopCheck
    /\ UNCHANGED <<config, followsScenario, input, startup, players, quiet>>

\* run(), lines 304-308: one firing of the ticker.
TickerCheck ==
    /\ pc = "ticker"
    /\ LoopCheck
    /\ UNCHANGED <<config, followsScenario, input, startup, players, quiet>>

NextMain ==
    \/ LoadConfig
    \/ FindBattery
    \/ CreateNotifier
    \/ InitialCheck
    \/ TickerCheck

\* run() calls check() at once and the ticker fires every interval.
SpecMain ==
    /\ InitMain
    /\ [][NextMain]_vars
    /\ WF_vars(InitialCheck)
    /\ WF_vars(TickerCheck)

----------------------------------------------------------------------------
\* The playback specification: the monitor with the tasks playSound starts,
\* next to the same run of the monitor with playSound left out.

LowSounds == {"", "~/low.wav"}

CriticalSounds == {"", "critical.wav"}

\* BatteryLevel.Sound of the level whose alert was sent.
SoundOf(level) ==
    IF level = "low" THEN config.LowBattery.Sound
    ELSE config.CriticalBattery.Sound

\* playSound(), lines 199-205: a leading ~/ becomes the home directory when
\* os.UserHomeDir succeeds.
ExpandHome(soundFile, homeOK) ==
    IF soundFile = "~/low.wav" /\ homeOK THEN "/home/user/low.wav"
    ELSE soundFile

\* playSound(), lines 194-215: nothing for the empty path, else a task that
\* starts at paplay; playSound returns without waiting for it.
PlaySound(soundFile, homeOK) ==
    IF soundFile = "" THEN players
    ELSE Append(players,
                [file |-> ExpandHome(soundFile, homeOK), pc |-> "paplay"])

\* Variant of CheckReady: the players are run inside playSound, so a check
\* starts only when every playback has ended.
CheckReadyWhenIdle ==
    \A i \in 1..Len(players) : players[i].pc \in {"played", "failed"}

\* playSound(), line 208: the players run in a goroutine nothing waits for.
CheckReady ==
    TRUE

\* Variant of MonitorAfterPlayback: a failed playback clears the alert.
MonitorAfterPlaybackReset(ok) ==
    IF ok THEN <<currentLevel, notificationID>> ELSE <<"normal", 0>>

\* playSound(), lines 208-214: the goroutine assigns no field of the Monitor.
MonitorAfterPlayback(ok) ==
    <<currentLevel, notificationID>>

\* check() with the playSound call of line 276 left out, on the monitor
\* state m; calls holds the notifier calls of every tick, states the level
\* and identifier after every tick.
QuietCheck(m, chargingOK, charging, capacityOK, capacity, sendOK, closeOK) ==
    LET Done(level, id, server, calls) ==
            [level |-> level, id |-> id, server |-> server,
             calls |-> Append(m.calls, calls),
             states |-> Append(m.states, <<level, id>>)]
        Same == Done(m.level, m.id, m.server, <<>>)
        Clear == Done("normal", 0, m.server, <<<<"Close", m.id>>>>)
        newLevel == Classify(capacity)
        id == m.server + 1
    IN  IF ~chargingOK THEN Same
        ELSE IF charging
        THEN IF m.level # "normal" THEN Clear ELSE Same
        ELSE IF ~capacityOK THEN Same
        ELSE IF newLevel # m.level /\ newLevel # "normal"
        THEN IF ~sendOK
             THEN Done(newLevel, m.id, m.server, <<<<"Send", 0>>>>)
             ELSE IF m.id # 0 /\ m.id # id
             THEN Done(newLevel, id, id, <<<<"Send", id>>, <<"Close", m.id>>>>)
             ELSE Done(newLevel, id, id, <<<<"Send", id>>>>)
        ELSE IF newLevel = "normal" /\ m.level # "normal" THEN Clear
        ELSE Same

InitSound ==
    /\ config \in {[LowBattery |-> [Threshold |-> 20, Sound |-> l],
                    CriticalBattery |-> [Threshold |-> 10, Sound |-> c]] :
                   l \in LowSounds, c \in CriticalSounds}
    /\ currentLevel = "normal"
    /\ notificationID = 0
    /\ serverID = 0
    /\ history = <<>>
    /\ followsScenario = FALSE
    /\ input = [charging |-> FALSE, capacity |-> 0]
    /\ pc = "run"
    /\ startup = Started
    /\ round = FALSE
    /\ players = <<>>
    /\ quiet = QuietInit

\* One check of run(), starting the playback task of the alert it sent.
SoundCheck ==
    /\ pc \in {"run", "ticker"}
    /\ Len(history) < MaxSoundTicks
    /\ CheckReady
    /\ \E chargingOK \in BOOLEAN, charging \in BOOLEAN,
          capacityOK \in BOOLEAN, capacity \in LoopCapacities,
          sendOK \in BOOLEAN, closeOK \in BOOLEAN, homeOK \in BOOLEAN :
          LET out == CheckOutcome(chargingOK, charging, capacityOK, capacity,
                                  sendOK, closeOK)
          IN  /\ RunCheck(chargingOK, charging, capacityOK, capacity,
                          sendOK, closeOK)
              /\ players' = IF out.rec.sound = "" THEN players
                            ELSE PlaySound(SoundOf(out.rec.sound), homeOK)
              /\ quiet' = QuietCheck(quiet, chargingOK, charging, capacityOK,
                                     capacity, sendOK, closeOK)
    /\ UNCHANGED <<config, followsScenario, input, startup>>

\* playSound(), lines 209-211: paplay exits; on an error aplay is tried.
PaplayExits ==
    \E i \in 1..Len(players), ok \in BOOLEAN :
        /\ players[i].pc = "paplay"
        /\ players' = [players EXCEPT
                          ![i].pc = IF ok THEN "played" ELSE "aplay"]
        /\ currentLevel' = MonitorAfterPlayback(ok)[1]
        /\ notificationID' = MonitorAfterPlayback(ok)[2]
        /\ UNCHANGED <<config, serverID, history, followsScenario, input,
                       pc, startup, round, quiet>>

\* playSound(), lines 211-212: aplay exits and its error is dropped.
AplayExits ==
    \E i \in 1..Len(players), ok \in BOOLEAN :
        /\ players[i].pc = "aplay"
        /\ players' = [players EXCEPT
                          ![i].pc = IF ok THEN "played" ELSE "failed"]
        /\ currentLevel' = MonitorAfterPlayback(ok)[1]
        /\ notificationID' = MonitorAfterPlayback(ok)[2]
        /\ UNCHANGED <<config, serverID, history, followsScenario, input,
                       pc, startup, round, quiet>>

NextSound ==
    \/ SoundCheck
    \/ PaplayExits
    \/ AplayExits

SpecSound == InitSound /\ [][NextSound]_vars

----------------------------------------------------------------------------
\* Reading the history.
Ticks == 1..Len(history)

SendsOf(r) == SelectSeq(r.calls, LAMBDA c : c.op = "Send")

ClosesOf(r) == SelectSeq(r.calls, LAMBDA c : c.op = "Close")

AllCallsOK(r) == \A k \in 1..Len(r.calls) : r.calls[k].ok

SendFailed(r) == \E k \in 1..Len(r.calls) :
                    r.calls[k].op = "Send" /\ ~r.calls[k].ok

\* The level a tick classifies: charging counts as normal, an aborted tick
\* classifies nothing.
Classified(r) ==
    IF r.err THEN "none"
    ELSE IF r.charging = "true" THEN "normal"
    ELSE r.newLevel

StateKept(r) == r.level = r.level0 /\ r.id = r.id0

Severity(level) ==
    IF level = "critical" THEN 2 ELSE IF level = "low" THEN 1 ELSE 0

\* The classifier as the specification words it.
RefClassify(capacity, charging, low, critical) ==
    IF charging THEN "normal"
    ELSE IF capacity <= critical THEN "critical"
    ELSE IF capacity <= low THEN "low"
    ELSE "normal"

----------------------------------------------------------------------------
\* C1: a tick whose Send fails leaves currentLevel and notificationID as they
\* were before the tick, and the next discharging tick that classifies the
\* same level calls Send again.
C1_SendFailureKeepsState ==
    \A i \in Ticks :
        SendFailed(history[i]) =>
            /\ StateKept(history[i])
            /\ (/\ i + 1 \in Ticks
                /\ history[i + 1].charging = "false"
                /\ history[i + 1].newLevel = history[i].newLevel)
               => Len(SendsOf(history[i + 1])) = 1

\* C2: between ticks, notificationID is nonzero exactly when currentLevel is
\* not normal.
C2_IdentifierIffAlert ==
    (notificationID # 0) <=> (currentLevel # "normal")

\* C3: a tick that classifies the same level as the tick before it calls
\* neither Send nor Close and leaves currentLevel and notificationID as they
\* were, whatever the earlier tick's Send returned.
C3_RepeatedLevelIsNoOp ==
    \A i \in Ticks :
        (/\ i > 1
         /\ Classified(history[i]) \in Levels
         /\ Classified(history[i]) = Classified(history[i - 1]))
        => /\ history[i].calls = <<>>
           /\ StateKept(history[i])

\* C3 witness: low is classified again right after a tick whose Send failed.
C3_Witness ==
    \E i \in Ticks :
        /\ i > 1
        /\ SendFailed(history[i - 1])
        /\ Classified(history[i - 1]) = "low"
        /\ Classified(history[i]) = "low"

\* The first four ticks classify normal, low, low, critical while
\* discharging and every notifier call succeeds.
EdgeScenario ==
    /\ Len(history) >= 4
    /\ \A i \in 1..4 : history[i].charging = "false" /\ ~history[i].err
    /\ <<history[1].newLevel, history[2].newLevel,
         history[3].newLevel, history[4].newLevel>>
         = <<"normal", "low", "low", "critical">>
    /\ \A i \in 1..4 : AllCallsOK(history[i])

\* C4: normal, low, low, critical sends exactly twice, on entering low and on
\* entering critical, and closes exactly once, on entering critical, the
\* identifier the low Send returned.
C4_EdgeTriggering ==
    EdgeScenario =>
        /\ Len(SendsOf(history[1])) = 0 /\ Len(ClosesOf(history[1])) = 0
        /\ Len(SendsOf(history[2])) = 1 /\ Len(ClosesOf(history[2])) = 0
        /\ Len(SendsOf(history[3])) = 0 /\ Len(ClosesOf(history[3])) = 0
        /\ Len(SendsOf(history[4])) = 1 /\ Len(ClosesOf(history[4])) = 1
        /\ ClosesOf(history[4])[1].id = SendsOf(history[2])[1].id
        /\ SendsOf(history[2])[1].id # 0

C4_Witness == EdgeScenario

\* C5: a charging tick reads no capacity, classifies nothing and sends
\* nothing; from an alert level it closes the held identifier once and ends
\* at normal/0, from normal it calls nothing and changes nothing.
C5_ChargingOverride ==
    \A i \in Ticks :
        LET r == history[i] IN
        r.charging = "true" =>
            /\ Len(SendsOf(r)) = 0
            /\ r.capacity = "unread" /\ r.newLevel = "" /\ r.sound = ""
            /\ r.level0 # "normal" =>
                  /\ Len(r.calls) = 1
                  /\ r.calls[1].op = "Close" /\ r.calls[1].id = r.id0
                  /\ r.level = "normal" /\ r.id = 0
            /\ r.level0 = "normal" => r.calls = <<>> /\ StateKept(r)

\* C5 witness: charging is reported at capacity 5 while a critical
\* notification is held.
C5_Witness ==
    /\ Len(history) = 1
    /\ input.charging /\ input.capacity = 5
    /\ history[1].level0 = "critical" /\ history[1].id0 # 0
    /\ history[1].level = "normal"

\* C6: discharging above both thresholds from low or critical closes the
\* held identifier exactly once, sends nothing and ends at normal/0.
C6_Recovery ==
    (/\ Len(history) = 1
     /\ ~input.charging
     /\ input.capacity > config.LowBattery.Threshold
     /\ input.capacity > config.CriticalBattery.Threshold
     /\ history[1].level0 \in {"low", "critical"})
    => LET r == history[1] IN
       /\ Len(r.calls) = 1
       /\ r.calls[1].op = "Close" /\ r.calls[1].id = r.id0
       /\ r.level = "normal" /\ r.id = 0
       /\ currentLevel = "normal" /\ notificationID = 0

C6_Witness ==
    /\ Len(history) = 1
    /\ ~input.charging
    /\ input.capacity > config.LowBattery.Threshold
    /\ input.capacity > config.CriticalBattery.Threshold
    /\ history[1].level0 = "critical" /\ history[1].id0 # 0
    /\ ~history[1].calls[1].ok

\* The level a tick computes: newLevel when discharging, the level the
\* charging override leaves otherwise.
TickLevel(r) == IF r.charging = "true" THEN r.level ELSE r.newLevel

\* C7: the level a tick computes is the reference classifier's: normal if
\* charging, else critical at or below the critical threshold, else low at
\* or below the low threshold, else normal.
C7_ClassifierMatchesReference ==
    Len(history) = 1 =>
        TickLevel(history[1]) =
            RefClassify(input.capacity, input.charging,
                        config.LowBattery.Threshold,
                        config.CriticalBattery.Threshold)

\* C7 witness: a capacity equal to the low threshold, above the critical one.
C7_Witness ==
    /\ Len(history) = 1
    /\ ~input.charging
    /\ input.capacity = config.LowBattery.Threshold
    /\ input.capacity > config.CriticalBattery.Threshold
    /\ history[1].newLevel = "low"

\* C8: while discharging, no higher capacity classifies more severely than
\* the capacity read on the tick, and no lower one less severely, for every
\* pair of thresholds.
C8_ClassifyMonotonic ==
    (Len(history) = 1 /\ ~input.charging) =>
        \A c \in 0..MaxCapacity :
            /\ c >= input.capacity =>
                  Severity(history[1].newLevel) >= Severity(Classify(c))
            /\ c <= input.capacity =>
                  Severity(history[1].newLevel) <= Severity(Classify(c))

\* C8 witness: inverted thresholds, a capacity between them.
C8_Witness ==
    /\ Len(history) = 1
    /\ ~input.charging
    /\ config.CriticalBattery.Threshold > config.LowBattery.Threshold
    /\ input.capacity > config.LowBattery.Threshold
    /\ input.capacity <= config.CriticalBattery.Threshold
    /\ history[1].newLevel = "critical"

\* Thresholds 20/10, capacities 25, 18, 9, 30 so far, every call succeeding.
OnScenario ==
    /\ followsScenario
    /\ config = MakeConfig(20, 10)
    /\ \A i \in Ticks : AllCallsOK(history[i])

\* C9: on that scenario the levels after the ticks are normal, low,
\* critical, normal; Send is called on ticks 2 and 3 only; tick 4 closes the
\* critical notification's identifier and leaves notificationID 0.
C9_Scenario ==
    OnScenario =>
        /\ \A i \in Ticks :
              /\ history[i].level = <<"normal", "low", "critical", "normal">>[i]
              /\ Len(SendsOf(history[i])) = IF i \in {2, 3} THEN 1 ELSE 0
        /\ Len(history) = 4 =>
              /\ Len(ClosesOf(history[4])) = 1
              /\ ClosesOf(history[4])[1].id = SendsOf(history[3])[1].id
              /\ SendsOf(history[3])[1].id # 0
              /\ notificationID = 0
              /\ currentLevel = "normal"

C9_Witness == OnScenario /\ Len(history) = 4

\* C10: a tick whose status read or capacity read fails returns the error,
\* calls neither Send nor Close, plays no sound and keeps the state; a
\* charging tick never reads the capacity.
C10_ReadFailureAborts ==
    \A i \in Ticks :
        LET r == history[i] IN
        /\ (r.charging = "error" \/ r.capacity = "error") =>
              /\ r.err
              /\ r.calls = <<>> /\ r.sound = ""
              /\ StateKept(r)
        /\ r.charging = "error" => r.capacity = "unread"
        /\ r.charging = "true" => r.capacity = "unread" /\ ~r.err

\* C10 witness: the capacity read fails while a low notification is held.
C10_Witness ==
    \E i \in Ticks :
        /\ history[i].capacity = "error"
        /\ history[i].level0 = "low" /\ history[i].id0 # 0

\* A Close of r that the transport refused.
CloseFailed(r) == \E k \in 1..Len(r.calls) :
                     r.calls[k].op = "Close" /\ ~r.calls[k].ok

\* The tick took the charging override or the recovery branch.
ClearingTick(r) ==
    \/ r.charging = "true" /\ r.level0 # "normal"
    \/ r.charging = "false" /\ ~r.err /\ r.newLevel = "normal"
       /\ r.level0 # "normal"

\* C12: a Close that fails in the charging override or in recovery still
\* ends the tick at normal/0 without an error, and no later tick calls Close
\* on that identifier again.
C12_CloseFailureAdvances ==
    \A i \in Ticks :
        LET r == history[i] IN
        (ClearingTick(r) /\ CloseFailed(r)) =>
            /\ r.level = "normal" /\ r.id = 0 /\ ~r.err
            /\ \A j \in Ticks : j > i =>
                  \A k \in 1..Len(history[j].calls) :
                      history[j].calls[k].op = "Close"
                          => history[j].calls[k].id # r.id0

\* C12 witness: a Close fails in a clearing tick and a later tick closes
\* another notification.
C12_Witness ==
    \E i \in Ticks, j \in Ticks :
        /\ j > i
        /\ ClearingTick(history[i]) /\ CloseFailed(history[i])
        /\ Len(ClosesOf(history[j])) > 0

\* C13: Close with identifier 0 succeeds without a transport call whatever
\* the transport would answer, also when check() issues it on leaving an
\* alert level that holds no identifier.
C13_CloseZeroIsNoOp ==
    /\ \A transportOK \in BOOLEAN :
          /\ DBusClose(0, transportOK).ok
          /\ DBusClose(0, transportOK).dbus = 0
    /\ \A i \in Ticks : \A k \in 1..Len(history[i].calls) :
          LET c == history[i].calls[k] IN
          (c.op = "Close" /\ c.id = 0) => c.ok /\ c.dbus = 0

\* C13 witness: an alert level whose Send failed is left, closing 0.
C13_Witness ==
    \E i \in Ticks :
        /\ ClearingTick(history[i])
        /\ history[i].id0 = 0
        /\ Len(ClosesOf(history[i])) = 1
        /\ ClosesOf(history[i])[1].id = 0

\* C15: playSound is invoked exactly on the ticks whose Send succeeded, with
\* the sound of the level sent; never on a tick whose Send failed.
C15_SoundOnlyAfterSend ==
    \A i \in Ticks :
        LET r == history[i] IN
        /\ SendFailed(r) => r.sound = ""
        /\ Len(SendsOf(r)) = 0 => r.sound = ""
        /\ (Len(SendsOf(r)) = 1 /\ ~SendFailed(r)) =>
              r.sound = SendsOf(r)[1].level

\* The tick classifies an alert level other than the current one.
AlertTick(r) ==
    /\ r.charging = "false" /\ ~r.err
    /\ r.newLevel # "normal" /\ r.newLevel # r.level0

\* C16: on a tick entering or changing the alert level a Close comes only
\* after the successful Send, only for a previous identifier that is nonzero
\* and differs from the new one; a failed Send closes nothing and keeps the
\* identifier; entering from normal closes nothing.
C16_CloseAfterSend ==
    \A i \in Ticks :
        LET r == history[i] IN
        AlertTick(r) =>
            /\ Len(SendsOf(r)) = 1 /\ r.calls[1].op = "Send"
            /\ Len(ClosesOf(r)) <= 1
            /\ Len(ClosesOf(r)) = 1 =>
                  /\ r.calls[1].ok /\ r.calls[2].op = "Close"
                  /\ r.calls[2].id = r.id0
                  /\ r.id0 # 0 /\ r.id0 # r.calls[1].id
            /\ SendFailed(r) => Len(ClosesOf(r)) = 0 /\ r.id = r.id0
            /\ r.level0 = "normal" => Len(ClosesOf(r)) = 0

\* C16 witness: critical is followed by low, the Send succeeds and the
\* critical notification is closed.
C16_Witness ==
    \E i \in Ticks :
        /\ AlertTick(history[i])
        /\ history[i].level0 = "critical" /\ history[i].newLevel = "low"
        /\ Len(ClosesOf(history[i])) = 1

\* C18: after a tick whose reads succeed currentLevel is the level
\* classified from the tick's charging and capacity readings, whatever Send
\* and Close answered.
C18_LevelFollowsClassification ==
    Len(history) = 1 =>
        /\ ~history[1].err
        /\ currentLevel =
              RefClassify(input.capacity, input.charging,
                          config.LowBattery.Threshold,
                          config.CriticalBattery.Threshold)
        /\ history[1].level = currentLevel

\* C18 witness: the Send of the low alert fails and the level is low.
C18_Witness ==
    /\ Len(history) = 1
    /\ SendFailed(history[1])
    /\ history[1].level0 = "normal"
    /\ currentLevel = "low"

\* Identifiers the server returned, and identifiers Close was called on.
SentIDs ==
    {history[i].calls[k].id : <<i, k>> \in
        {p \in Ticks \X (1..2) :
            /\ p[2] <= Len(history[p[1]].calls)
            /\ history[p[1]].calls[p[2]].op = "Send"
            /\ history[p[1]].calls[p[2]].ok}}

ClosedIDs ==
    {history[i].calls[k].id : <<i, k>> \in
        {p \in Ticks \X (1..2) :
            /\ p[2] <= Len(history[p[1]].calls)
            /\ history[p[1]].calls[p[2]].op = "Close"}}

\* C19: between ticks every identifier a Send returned has had Close called
\* on it, except at most the one held in notificationID.
C19_AtMostOneOpen ==
    /\ \A i \in Ticks : Len(history[i].calls) <= 2
    /\ 0 \notin SentIDs
    /\ SentIDs \ ClosedIDs \subseteq {notificationID}

\* C19 witness: two notifications were sent, the first was closed (the
\* transport refusing it) and the second is held.
C19_Witness ==
    /\ Cardinality(SentIDs) >= 2
    /\ notificationID \in SentIDs \ ClosedIDs
    /\ \E i \in Ticks : CloseFailed(history[i])

\* C20: with the critical threshold at or above the low threshold the level
\* is never low and no Send carries the low level's title, message and icon.
C20_LowUnreachable ==
    config.CriticalBattery.Threshold >= config.LowBattery.Threshold =>
        /\ currentLevel \in {"normal", "critical"}
        /\ \A i \in Ticks :
              /\ history[i].level # "low" /\ history[i].newLevel # "low"
              /\ \A k \in 1..Len(history[i].calls) :
                    history[i].calls[k].level # "low"

\* C20 witness: inverted thresholds and a critical alert sent.
C20_Witness ==
    /\ config.CriticalBattery.Threshold > config.LowBattery.Threshold
    /\ currentLevel = "critical"
    /\ \E i \in Ticks : Len(SendsOf(history[i])) = 1

\* C11: once startup has succeeded a check runs before run() waits for the
\* ticker, run() never returns, and after every check, failed or not, another
\* check is executed.
C11_LoopNeverStops ==
    /\ [](pc = "ticker" => history # <<>>)
    /\ [](pc # "returned")
    /\ (pc = "run") ~> (pc = "ticker")
    /\ (pc \in {"run", "ticker"} /\ round) ~> ~round
    /\ (pc \in {"run", "ticker"} /\ ~round) ~> round

\* C11 witness: run() waits for the ticker after a check that failed to read
\* the battery while an alert was held.
C11_Witness ==
    /\ pc = "ticker"
    /\ history # <<>>
    /\ history[1].err
    /\ history[1].level0 # "normal"

\* C14: the startup steps are attempted in the order config, battery,
\* notifier; the first failure ends the process before any check, and no
\* step or check follows it.
C14_StartupFailureIsFatal ==
    /\ \A i \in 1..Len(startup) : startup[i].step = StartupOrder[i]
    /\ \A i \in 1..(Len(startup) - 1) : startup[i].ok
    /\ (startup # <<>> /\ ~startup[Len(startup)].ok) =>
          /\ pc = "fatal"
          /\ history = <<>> /\ serverID = 0
          /\ ~ENABLED NextMain
    /\ pc = "fatal" => startup # <<>> /\ ~startup[Len(startup)].ok
    /\ history # <<>> =>
          Len(startup) = 3 /\ \A i \in 1..3 : startup[i].ok

\* C14 witness: the configuration loads and no battery is found.
C14_Witness ==
    /\ pc = "fatal"
    /\ Len(startup) = 2
    /\ startup[1].ok /\ ~startup[2].ok

\* The notifier calls of a tick as operation and identifier.
CallsOf(r) == [k \in 1..Len(r.calls) |-> <<r.calls[k].op, r.calls[k].id>>]

\* C17: whatever the playback tasks do between the checks, a check never
\* waits for them, and the levels, identifiers and notifier calls of the run
\* are those of the same run with playSound left out.
C17_PlaybackIsDetached ==
    /\ (pc \in {"run", "ticker"} /\ Len(history) < MaxSoundTicks)
          => ENABLED SoundCheck
    /\ currentLevel = quiet.level /\ notificationID = quiet.id
    /\ Len(quiet.calls) = Len(history)
    /\ \A i \in Ticks :
          /\ CallsOf(history[i]) = quiet.calls[i]
          /\ <<history[i].level, history[i].id>> = quiet.states[i]

\* C17 witness: paplay of the first alert has failed and aplay is still
\* running, or has failed too, when a later check sends the next alert.
C17_Witness ==
    /\ Len(history) >= 2
    /\ Len(SendsOf(history[1])) = 1
    /\ Len(SendsOf(history[2])) = 1
    /\ Len(players) >= 2
    /\ players[1].pc \in {"aplay", "failed"}
    /\ players[2].pc = "paplay"

====
